---- MODULE Spec2Model ----
(***************************************************************************)
(* Model of the gpcal-ai edge function                                     *)
(* (src/supabase/functions/gpcal-ai/index.ts) and of its alternate variant *)
(* (src/unnamed/part_000): the per-client rate limiter, the method check,  *)
(* the body validation, the bounded gateway call and the reconciliation of *)
(* the model's text into an AIResult.                                      *)
(*                                                                         *)
(* Strings are sequences of characters. A character is a TLA+ string; a    *)
(* word that the code never looks inside ("reply", "Too many requests")    *)
(* is written as one character.                                            *)
(***************************************************************************)
EXTENDS Integers, Sequences, FiniteSets, TLC

\* ------------------------------------------------------------------ text

Q == "\""
BSL == "\\"
WS == {" ", "\n"}
NumLexemes == {"0", "1", "2", "3", "4", "3.2"}

\* JSON values, all of one shape: t is the type, s the characters of a string
\* or the lexeme of a number, m the members of an object (<<key, value>>) or
\* the elements of an array (<<index key, value>>).
JStr(s) == [t |-> "str", s |-> s, m |-> <<>>]
JNum(s) == [t |-> "num", s |-> s, m |-> <<>>]
JNull == [t |-> "null", s |-> <<>>, m |-> <<>>]
JObj(m) == [t |-> "obj", s |-> <<>>, m |-> m]
JArr(m) == [t |-> "arr", s |-> <<>>, m |-> m]

Keys(v) == {v.m[i][1] : i \in 1..Len(v.m)}
Has(v, k) == k \in Keys(v)
Get(v, k) == v.m[CHOOSE i \in 1..Len(v.m) : v.m[i][1] = k][2]

\* obj[k] = x as JavaScript does it: an existing key keeps its place.
Put(m, k, x) ==
  IF \E i \in 1..Len(m) : m[i][1] = k
  THEN [i \in 1..Len(m) |-> IF m[i][1] = k THEN <<k, x>> ELSE m[i]]
  ELSE Append(m, <<k, x>>)

ParseFail == [ok |-> FALSE, v |-> JNull, rest |-> <<>>]
ParseOk(v, rest) == [ok |-> TRUE, v |-> v, rest |-> rest]

RECURSIVE SkipWS(_)
SkipWS(s) == IF s # <<>> /\ Head(s) \in WS THEN SkipWS(Tail(s)) ELSE s

\* The characters of a string literal after its opening quote.
RECURSIVE ScanString(_, _)
ScanString(s, acc) ==
  IF s = <<>> THEN ParseFail
  ELSE IF Head(s) = Q THEN ParseOk(JStr(acc), Tail(s))
  ELSE IF Head(s) = "\n" THEN ParseFail
  ELSE IF Head(s) = BSL
    THEN IF Len(s) >= 2 /\ s[2] \in {Q, BSL}
         THEN ScanString(Tail(Tail(s)), Append(acc, s[2]))
         ELSE ParseFail
  ELSE ScanString(Tail(s), Append(acc, Head(s)))

RECURSIVE ParseValue(_)
RECURSIVE ParseMembers(_, _)
RECURSIVE ParseElements(_, _)

\* s starts (after white space) at a member's key.
ParseMembers(s0, acc) ==
  LET s == SkipWS(s0) IN
  IF s = <<>> \/ Head(s) # Q THEN ParseFail
  ELSE
    LET k == ScanString(Tail(s), <<>>) IN
    IF ~k.ok THEN ParseFail
    ELSE
      LET c == SkipWS(k.rest) IN
      IF c = <<>> \/ Head(c) # ":" THEN ParseFail
      ELSE
        LET x == ParseValue(Tail(c)) IN
        IF ~x.ok THEN ParseFail
        ELSE
          LET r == SkipWS(x.rest)
              acc2 == Put(acc, k.v.s, x.v)
          IN
          IF r = <<>> THEN ParseFail
          ELSE IF Head(r) = "," THEN ParseMembers(Tail(r), acc2)
          ELSE IF Head(r) = "}" THEN ParseOk(JObj(acc2), Tail(r))
          ELSE ParseFail

\* s starts (after white space) at an element.
ParseElements(s0, acc) ==
  LET x == ParseValue(s0) IN
  IF ~x.ok THEN ParseFail
  ELSE
    LET r == SkipWS(x.rest)
        acc2 == Append(acc, <<<<>>, x.v>>)
    IN
    IF r = <<>> THEN ParseFail
    ELSE IF Head(r) = "," THEN ParseElements(Tail(r), acc2)
    ELSE IF Head(r) = "]" THEN ParseOk(JArr(acc2), Tail(r))
    ELSE ParseFail

ParseValue(s0) ==
  LET s == SkipWS(s0) IN
  IF s = <<>> THEN ParseFail
  ELSE IF Head(s) = Q THEN ScanString(Tail(s), <<>>)
  ELSE IF Head(s) = "null" THEN ParseOk(JNull, Tail(s))
  ELSE IF Head(s) \in NumLexemes THEN ParseOk(JNum(<<Head(s)>>), Tail(s))
  ELSE IF Head(s) = "{"
    THEN LET r == SkipWS(Tail(s)) IN
         IF r # <<>> /\ Head(r) = "}" THEN ParseOk(JObj(<<>>), Tail(r))
         ELSE ParseMembers(r, <<>>)
  ELSE IF Head(s) = "["
    THEN LET r == SkipWS(Tail(s)) IN
         IF r # <<>> /\ Head(r) = "]" THEN ParseOk(JArr(<<>>), Tail(r))
         ELSE ParseElements(r, <<>>)
  ELSE ParseFail

\* JSON.parse: ok is FALSE where it throws a SyntaxError.
JSONparse(s) ==
  LET x == ParseValue(s) IN
  IF x.ok /\ SkipWS(x.rest) = <<>> THEN [ok |-> TRUE, v |-> x.v]
  ELSE [ok |-> FALSE, v |-> JNull]

RECURSIVE Escape(_)
Escape(s) ==
  IF s = <<>> THEN <<>>
  ELSE (IF Head(s) \in {Q, BSL} THEN <<BSL, Head(s)>> ELSE <<Head(s)>>)
       \o Escape(Tail(s))

RECURSIVE JSONstringify(_)
RECURSIVE StringifyList(_, _)
StringifyList(m, obj) ==
  IF m = <<>> THEN <<>>
  ELSE (IF obj THEN <<Q>> \o Escape(m[1][1]) \o <<Q, ":">> ELSE <<>>)
       \o JSONstringify(m[1][2])
       \o (IF Len(m) > 1 THEN <<",">> ELSE <<>>)
       \o StringifyList(Tail(m), obj)

JSONstringify(v) ==
  CASE v.t = "str" -> <<Q>> \o Escape(v.s) \o <<Q>>
    [] v.t = "num" -> v.s
    [] v.t = "null" -> <<"null">>
    [] v.t = "obj" -> <<"{">> \o StringifyList(v.m, TRUE) \o <<"}">>
    [] v.t = "arr" -> <<"[">> \o StringifyList(v.m, FALSE) \o <<"]">>

\* --------------------------------------------------------------- schemas

REPLY == <<"reply">>
SUGGESTED == <<"suggested_improvement">>
INPUT == <<"input">>
SEMESTER == <<"semester">>

IsNonEmptyString(v) == v.t = "str" /\ Len(v.s) >= 1

\* The schema without min(1) on suggested_improvement.
AIResponseSchemaNoMin(v) ==
  LET ok == /\ v.t = "obj"
            /\ Has(v, REPLY) /\ IsNonEmptyString(Get(v, REPLY))
            /\ Has(v, SUGGESTED) => Get(v, SUGGESTED).t = "str"
  IN
  IF ~ok THEN [ok |-> FALSE, v |-> JNull]
  ELSE [ok |-> TRUE,
        v |-> JObj(<<<<REPLY, Get(v, REPLY)>>>>
                   \o (IF Has(v, SUGGESTED)
                       THEN <<<<SUGGESTED, Get(v, SUGGESTED)>>>> ELSE <<>>))]

\* The schema of reply alone: suggested_improvement is dropped as an unknown key.
AIResponseSchemaReplyOnly(v) ==
  LET ok == /\ v.t = "obj"
            /\ Has(v, REPLY) /\ IsNonEmptyString(Get(v, REPLY))
  IN
  IF ~ok THEN [ok |-> FALSE, v |-> JNull]
  ELSE [ok |-> TRUE, v |-> JObj(<<<<REPLY, Get(v, REPLY)>>>>)]

\* AIResponseSchema.parse: a plain z.object, so unknown keys are dropped and
\* the result carries the schema's keys in the schema's order.
AIResponseSchema(v) ==
  LET ok == /\ v.t = "obj"
            /\ Has(v, REPLY) /\ IsNonEmptyString(Get(v, REPLY))
            /\ Has(v, SUGGESTED) => IsNonEmptyString(Get(v, SUGGESTED))
  IN
  IF ~ok THEN [ok |-> FALSE, v |-> JNull]
  ELSE [ok |-> TRUE,
        v |-> JObj(<<<<REPLY, Get(v, REPLY)>>>>
                   \o (IF Has(v, SUGGESTED)
                       THEN <<<<SUGGESTED, Get(v, SUGGESTED)>>>> ELSE <<>>))]

\* The body schema without .strict(): unknown keys are dropped, not refused.
BodySchemaNotStrict(v) ==
  LET ok == /\ v.t = "obj"
            /\ Has(v, INPUT) /\ IsNonEmptyString(Get(v, INPUT))
            /\ Has(v, SEMESTER) /\ Get(v, SEMESTER).t = "obj"
  IN
  IF ~ok THEN [ok |-> FALSE, v |-> JNull]
  ELSE [ok |-> TRUE,
        v |-> JObj(<<<<INPUT, Get(v, INPUT)>>, <<SEMESTER, Get(v, SEMESTER)>>>>)]

\* BodySchema.parse: a strict z.object of input and semester.
BodySchema(v) ==
  LET ok == /\ v.t = "obj"
            /\ Has(v, INPUT) /\ IsNonEmptyString(Get(v, INPUT))
            /\ Has(v, SEMESTER) /\ Get(v, SEMESTER).t = "obj"
            /\ Keys(v) \subseteq {INPUT, SEMESTER}
  IN
  IF ~ok THEN [ok |-> FALSE, v |-> JNull]
  ELSE [ok |-> TRUE,
        v |-> JObj(<<<<INPUT, Get(v, INPUT)>>, <<SEMESTER, Get(v, SEMESTER)>>>>)]

\* ------------------------------------------------------------ reconciler

\* i starts a match of /"\s+"suggested_improvement"/ whose white space ends at j.
MatchesAt(s, i, j) ==
  /\ i >= 1 /\ j > i /\ j + 3 <= Len(s)
  /\ s[i] = Q
  /\ \A k \in (i + 1)..j : s[k] \in WS
  /\ s[j + 1] = Q /\ s[j + 2] = "suggested_improvement" /\ s[j + 3] = Q

\* text.replace(/"\s+"suggested_improvement"/, '", "suggested_improvement"'):
\* the leftmost match only.
FixText(s) ==
  LET hits == {i \in 1..Len(s) : \E j \in 1..Len(s) : MatchesAt(s, i, j)} IN
  IF hits = {} THEN s
  ELSE
    LET i == CHOOSE h \in hits : \A g \in hits : h <= g
        j == CHOOSE x \in 1..Len(s) : MatchesAt(s, i, x)
    IN SubSeq(s, 1, i - 1)
       \o <<Q, ",", " ", Q, "suggested_improvement", Q>>
       \o SubSeq(s, j + 4, Len(s))

FALLBACK == JObj(<<<<REPLY, JStr(<<"Sorry, could not generate insights. Try again.">>)>>>>)

ParseAI(s) ==
  LET p == JSONparse(s) IN
  IF p.ok THEN AIResponseSchema(p.v) ELSE [ok |-> FALSE, v |-> JNull]

\* The reconciliation whose last catch puts the raw text into the reply.
ReconcileEchoesText(text) ==
  LET first == ParseAI(text) IN
  IF first.ok THEN [aiData |-> first.v, tier |-> "direct"]
  ELSE
    LET second == ParseAI(FixText(text)) IN
    IF second.ok THEN [aiData |-> second.v, tier |-> "repaired"]
    ELSE [aiData |-> JObj(<<<<REPLY, JStr(text)>>>>), tier |-> "fallback"]

\* The try / catch / try of the handler: aiData, and the tier that gave it.
Reconcile(text) ==
  LET first == ParseAI(text) IN
  IF first.ok THEN [aiData |-> first.v, tier |-> "direct"]
  ELSE
    LET second == ParseAI(FixText(text)) IN
    IF second.ok THEN [aiData |-> second.v, tier |-> "repaired"]
    ELSE [aiData |-> FALLBACK, tier |-> "fallback"]

\* ---------------------------------------------------------------- inputs

\* "..." as the characters of a JSON string literal.
Lit(s) == <<Q>> \o s \o <<Q>>

\* The x-forwarded-for header: absent, or its characters.
NoHeader == [present |-> FALSE, value |-> <<>>]
Header(s) == [present |-> TRUE, value |-> s]
Headers ==
  { NoHeader,
    Header(<<" ", "a", " ", ",", " ", "b">>) }

Methods == {"POST", "GET"}

BodyOk == <<"{">> \o Lit(INPUT) \o <<":">> \o Lit(<<"x">>) \o <<",">>
          \o Lit(SEMESTER) \o <<":", "{", "}", "}">>
BodyScenario ==
  <<"{">> \o Lit(INPUT) \o <<":">> \o Lit(<<"how am I doing">>) \o <<",">>
  \o Lit(SEMESTER) \o <<":", "{">> \o Lit(<<"gpa">>) \o <<":", "3.2", "}", "}">>
\* b, a JSON object's text, with one more member.
WithMember(b, k, x) == SubSeq(b, 1, Len(b) - 1) \o <<",">> \o Lit(k) \o <<":">> \o x \o <<"}">>
BodyStage(n) == WithMember(BodyScenario, <<"stage">>, <<n>>)
BodyNoSemester == <<"{">> \o Lit(INPUT) \o <<":">> \o Lit(<<"x">>) \o <<"}">>
BodyNoInput == <<"{">> \o Lit(SEMESTER) \o <<":", "{", "}", "}">>
BodyEmptyInput == <<"{">> \o Lit(INPUT) \o <<":">> \o Lit(<<>>) \o <<",">>
                  \o Lit(SEMESTER) \o <<":", "{", "}", "}">>
BodyExtra == WithMember(BodyOk, <<"extra">>, Lit(<<"x">>))
BodyNotJson == <<"{">> \o Lit(INPUT)
\* A body with a history of n messages.
HistoryEntry ==
  <<"{">> \o Lit(<<"role">>) \o <<":">> \o Lit(<<"assistant">>) \o <<",">>
  \o Lit(<<"content">>) \o <<":">> \o Lit(<<"hi">>) \o <<"}">>
RECURSIVE HistoryEntries(_)
HistoryEntries(n) ==
  IF n = 0 THEN <<>>
  ELSE IF n = 1 THEN HistoryEntry
  ELSE HistoryEntries(n - 1) \o <<",">> \o HistoryEntry
BodyHistory(n) ==
  WithMember(BodyScenario, <<"history">>, <<"[">> \o HistoryEntries(n) \o <<"]">>)

ValidBodies == {BodyOk, BodyScenario}
Bodies ==
  ValidBodies \cup
  { BodyStage("1"), BodyStage("4"), BodyNoSemester, BodyNoInput,
    BodyEmptyInput, BodyExtra, BodyNotJson,
    BodyHistory(0), BodyHistory(1), BodyHistory(4) }

\* What the model may return as output_text.
Member(k, x) == Lit(k) \o <<":">> \o x
TextReply == <<"{">> \o Member(REPLY, Lit(<<"a">>)) \o <<"}">>
TextBoth == <<"{">> \o Member(REPLY, Lit(<<"a">>)) \o <<",">>
            \o Member(SUGGESTED, Lit(<<"b">>)) \o <<"}">>
TextSpaced == <<"{", " ">> \o Lit(REPLY) \o <<" ", ":", "\n">> \o Lit(<<"a", BSL, Q>>)
              \o <<" ", "}", "\n">>
TextNoComma == <<"{">> \o Member(REPLY, Lit(<<"a">>)) \o <<" ", "\n">>
               \o Member(SUGGESTED, Lit(<<"b">>)) \o <<"}">>
TextNoCommaNoSpace == <<"{">> \o Member(REPLY, Lit(<<"a">>))
                      \o Member(SUGGESTED, Lit(<<"b">>)) \o <<"}">>
TextEmptySuggested == <<"{">> \o Member(REPLY, Lit(<<"a">>)) \o <<",">>
                      \o Member(SUGGESTED, Lit(<<>>)) \o <<"}">>
TextNoCommaEmptySuggested == <<"{">> \o Member(REPLY, Lit(<<"a">>)) \o <<" ">>
                             \o Member(SUGGESTED, Lit(<<>>)) \o <<"}">>
TextNullSuggested == <<"{">> \o Member(REPLY, Lit(<<"a">>)) \o <<",">>
                     \o Member(SUGGESTED, <<"null">>) \o <<"}">>
TextEmptyReply == <<"{">> \o Member(REPLY, Lit(<<>>)) \o <<"}">>
TextExtraField == <<"{">> \o Member(REPLY, Lit(<<"a">>)) \o <<",">>
                  \o Member(<<"note">>, Lit(<<"x">>)) \o <<"}">>
TextProse == <<"Here is the analysis">>
TextFenced == <<"fence", "json", "\n">> \o TextReply \o <<"\n", "fence">>
TextString == Lit(REPLY)
TextSwapped == <<"{">> \o Member(SUGGESTED, Lit(<<"b">>)) \o <<",">>
               \o Member(REPLY, Lit(<<"a">>)) \o <<"}">>

Texts ==
  { TextReply, TextBoth, TextSpaced, TextNoComma, TextNoCommaNoSpace,
    TextEmptySuggested, TextNoCommaEmptySuggested, TextNullSuggested,
    TextEmptyReply, TextExtraField, TextProse, TextFenced, TextString,
    TextSwapped }

\* response.output_text: a text, the empty string, or undefined.
OutputTexts ==
  {[defined |-> TRUE, text |-> t] : t \in Texts \cup {<<>>}}
  \cup {[defined |-> FALSE, text |-> <<>>]}

\* ------------------------------------------------------------- constants

RATE_LIMIT_WINDOW == 60 * 1000
MAX_REQUESTS == 5
TIMEOUT_MS == 40000
ALT_TIMEOUT_MS == 15000

\* The two handlers of the repository.
MAIN == "gpcal-ai/index.ts"
ALT == "unnamed/part_000"
Fns == {MAIN, ALT}

SYSTEM_PROMPT(fn) ==
  IF fn = MAIN THEN <<"SYSTEM_PROMPT: overall semester performance">>
  ELSE <<"SYSTEM_PROMPT: projected semester performance">>
NOTE == <<"semester is an object containing term name, ...">>
UNKNOWN == <<"unknown">>

\* ------------------------------------------------------------------ bounds

\* The clock runs to MaxWindows rate-limit windows.
MaxWindows == 2
\* Calls in flight at once in one process.
MaxCalls == 2
\* Calls of one client the model follows in one window.
MaxBurst == 6

\* The instants the clock is read at: around each window's end, and around
\* each handler's timeout.
WindowTimes ==
  {0} \cup UNION {{k * RATE_LIMIT_WINDOW - 1, k * RATE_LIMIT_WINDOW} : k \in 1..MaxWindows}
TimerTimes ==
  {0, ALT_TIMEOUT_MS - 1, ALT_TIMEOUT_MS, TIMEOUT_MS - 1, TIMEOUT_MS, RATE_LIMIT_WINDOW}

\* ------------------------------------------------------------ the handler

RECURSIVE FirstToken(_)
FirstToken(s) ==
  IF s = <<>> \/ Head(s) = "," THEN <<>> ELSE <<Head(s)>> \o FirstToken(Tail(s))

RECURSIVE TrimEnd(_)
TrimEnd(s) ==
  IF s # <<>> /\ s[Len(s)] \in WS THEN TrimEnd(SubSeq(s, 1, Len(s) - 1)) ELSE s

Trim(s) == TrimEnd(SkipWS(s))

\* req.headers.get("x-forwarded-for")?.split(",")[0].trim() || "unknown"
ClientIp(h) ==
  IF ~h.present THEN UNKNOWN
  ELSE LET t == Trim(FirstToken(h.value)) IN IF t = <<>> THEN UNKNOWN ELSE t

MapSet(map, k, x) == [j \in DOMAIN map \cup {k} |-> IF j = k THEN x ELSE map[j]]

\* The rate check with record.count > MAX_REQUESTS for the denial.
RateCheckOffByOne(map, ip, t) ==
  IF ip \in DOMAIN map
  THEN LET record == map[ip] IN
       IF t - record.firstRequest < RATE_LIMIT_WINDOW
       THEN IF record.count > MAX_REQUESTS
            THEN [allowed |-> FALSE, map |-> map]
            ELSE [allowed |-> TRUE,
                  map |-> MapSet(map, ip, [record EXCEPT !.count = @ + 1])]
       ELSE [allowed |-> TRUE,
             map |-> MapSet(map, ip, [count |-> 1, firstRequest |-> t])]
  ELSE [allowed |-> TRUE,
        map |-> MapSet(map, ip, [count |-> 1, firstRequest |-> t])]

\* The rate check with now - record.firstRequest <= RATE_LIMIT_WINDOW for the
\* running window.
RateCheckLateExpiry(map, ip, t) ==
  IF ip \in DOMAIN map
  THEN LET record == map[ip] IN
       IF t - record.firstRequest <= RATE_LIMIT_WINDOW
       THEN IF record.count >= MAX_REQUESTS
            THEN [allowed |-> FALSE, map |-> map]
            ELSE [allowed |-> TRUE,
                  map |-> MapSet(map, ip, [record EXCEPT !.count = @ + 1])]
       ELSE [allowed |-> TRUE,
             map |-> MapSet(map, ip, [count |-> 1, firstRequest |-> t])]
  ELSE [allowed |-> TRUE,
        map |-> MapSet(map, ip, [count |-> 1, firstRequest |-> t])]

\* The rate check that lets a call on without record.count++.
RateCheckNoIncrement(map, ip, t) ==
  IF ip \in DOMAIN map
  THEN LET record == map[ip] IN
       IF t - record.firstRequest < RATE_LIMIT_WINDOW
       THEN IF record.count >= MAX_REQUESTS
            THEN [allowed |-> FALSE, map |-> map]
            ELSE [allowed |-> TRUE,
                  map |-> map]
       ELSE [allowed |-> TRUE,
             map |-> MapSet(map, ip, [count |-> 1, firstRequest |-> t])]
  ELSE [allowed |-> TRUE,
        map |-> MapSet(map, ip, [count |-> 1, firstRequest |-> t])]

\* The rate check whose expired window keeps the old count.
RateCheckStaleCount(map, ip, t) ==
  IF ip \in DOMAIN map
  THEN LET record == map[ip] IN
       IF t - record.firstRequest < RATE_LIMIT_WINDOW
       THEN IF record.count >= MAX_REQUESTS
            THEN [allowed |-> FALSE, map |-> map]
            ELSE [allowed |-> TRUE,
                  map |-> MapSet(map, ip, [record EXCEPT !.count = @ + 1])]
       ELSE [allowed |-> TRUE,
             map |-> MapSet(map, ip, [record EXCEPT !.firstRequest = t])]
  ELSE [allowed |-> TRUE,
        map |-> MapSet(map, ip, [count |-> 1, firstRequest |-> t])]

\* The rate check that counts the denied call too.
RateCheckCountsDenied(map, ip, t) ==
  IF ip \in DOMAIN map
  THEN LET record == map[ip] IN
       IF t - record.firstRequest < RATE_LIMIT_WINDOW
       THEN IF record.count >= MAX_REQUESTS
            THEN [allowed |-> FALSE,
                  map |-> MapSet(map, ip, [record EXCEPT !.count = @ + 1])]
            ELSE [allowed |-> TRUE,
                  map |-> MapSet(map, ip, [record EXCEPT !.count = @ + 1])]
       ELSE [allowed |-> TRUE,
             map |-> MapSet(map, ip, [count |-> 1, firstRequest |-> t])]
  ELSE [allowed |-> TRUE,
        map |-> MapSet(map, ip, [count |-> 1, firstRequest |-> t])]

\* The rate check whose expired window starts again at count 0.
RateCheckResetToZero(map, ip, t) ==
  IF ip \in DOMAIN map
  THEN LET record == map[ip] IN
       IF t - record.firstRequest < RATE_LIMIT_WINDOW
       THEN IF record.count >= MAX_REQUESTS
            THEN [allowed |-> FALSE, map |-> map]
            ELSE [allowed |-> TRUE,
                  map |-> MapSet(map, ip, [record EXCEPT !.count = @ + 1])]
       ELSE [allowed |-> TRUE,
             map |-> MapSet(map, ip, [count |-> 0, firstRequest |-> t])]
  ELSE [allowed |-> TRUE,
        map |-> MapSet(map, ip, [count |-> 1, firstRequest |-> t])]

\* The rate check of the handler: whether the call goes on, and ipMap after it.
RateCheck(map, ip, t) ==
  IF ip \in DOMAIN map
  THEN LET record == map[ip] IN
       IF t - record.firstRequest < RATE_LIMIT_WINDOW
       THEN IF record.count >= MAX_REQUESTS
            THEN [allowed |-> FALSE, map |-> map]
            ELSE [allowed |-> TRUE,
                  map |-> MapSet(map, ip, [record EXCEPT !.count = @ + 1])]
       ELSE [allowed |-> TRUE,
             map |-> MapSet(map, ip, [count |-> 1, firstRequest |-> t])]
  ELSE [allowed |-> TRUE,
        map |-> MapSet(map, ip, [count |-> 1, firstRequest |-> t])]

Timeout(fn) == IF fn = MAIN THEN TIMEOUT_MS ELSE ALT_TIMEOUT_MS

JSON_HEADERS == {<<"Content-Type", "application/json">>, <<"Cache-Control", "no-store">>}

\* new Response(body, {status}) of the two handlers.
MsgResponse(fn, status, msg) ==
  [status |-> status,
   body |-> IF fn = MAIN THEN JSONstringify(JObj(<<<<<<"msg">>, JStr(<<msg>>)>>>>))
            ELSE <<msg>>,
   headers |-> {}]
OkResponse(aiData) ==
  [status |-> 200, body |-> JSONstringify(aiData), headers |-> JSON_HEADERS]

\* The messages the handler sends for a validated body.
Messages(fn, body) ==
  << [role |-> "system", content |-> SYSTEM_PROMPT(fn)],
     [role |-> "user",
      content |-> JSONstringify(JObj(<< <<<<"intent">>, Get(body, INPUT)>>,
                                        <<SEMESTER, Get(body, SEMESTER)>>,
                                        <<<<"note">>, JStr(NOTE)>> >>))] >>

VARIABLES
  now,     \* Date.now()
  ipMap,   \* client key -> [count, firstRequest]
  calls,   \* the calls in flight, and the finished ones whose timer is pending
  seen,    \* history: client key -> the window of its calls as the caller sees it
  admit,   \* history: the latest rate check
  last,    \* history: the latest finished call
  log      \* history: [on, at], at: client key -> the times of its admissions

vars == <<now, ipMap, calls, seen, admit, last, log>>

NoOutput == [defined |-> FALSE, text |-> <<>>]
IdleCall ==
  [pc |-> "idle", fn |-> MAIN, timer |-> "none", armedAt |-> 0,
   reqText |-> <<>>, messages |-> <<>>, nresp |-> 0, status |-> 0]
NoAdmit ==
  [ip |-> <<>>, at |-> 0, method |-> "", ord |-> 0, renewed |-> FALSE,
   prevDenied |-> 0, allowed |-> FALSE, tableChanged |-> FALSE,
   status |-> 0, body |-> <<>>]
NoCall ==
  [fn |-> "", method |-> "", denied |-> FALSE, bodyRead |-> FALSE, reqText |-> <<>>,
   messages |-> <<>>, gateway |-> "none", output |-> NoOutput, tier |-> "none",
   timer |-> "none", responses |-> <<>>]

\* No call yet, in a process that runs up to n calls at once; the times of
\* the admissions are recorded when logging holds.
InitOf(n, logging) ==
  /\ now = 0
  /\ ipMap = <<>>
  /\ calls = [c \in 1..n |-> IdleCall]
  /\ seen = <<>>
  /\ admit = NoAdmit
  /\ last = NoCall
  /\ log = [on |-> logging, at |-> <<>>]

Free(c) == calls[c].pc \in {"idle", "done"} /\ calls[c].timer # "armed"

\* The window of ip's calls after one more call at time t.
SeenAfter(ip, t) ==
  IF ip \in DOMAIN seen /\ t - seen[ip].start < RATE_LIMIT_WINDOW
  THEN [seen[ip] EXCEPT !.n = @ + 1]
  ELSE [start |-> t, n |-> 1,
        prevDenied |-> IF ip \in DOMAIN seen /\ seen[ip].n > MAX_REQUESTS
                       THEN seen[ip].n - MAX_REQUESTS ELSE 0,
        renewed |-> ip \in DOMAIN seen]

Finished(c, fn, status, nresp) ==
  [pc |-> "done", fn |-> fn, timer |-> calls[c].timer, armedAt |-> calls[c].armedAt,
   reqText |-> <<>>, messages |-> <<>>, nresp |-> nresp, status |-> status]

\* The times at which calls of key k were admitted, oldest first.
Admitted(k) == IF k \in DOMAIN log.at THEN log.at[k] ELSE <<>>

\* index.ts, from the call's arrival to await req.json().
Handle(c, h, method) ==
  LET ip == ClientIp(h)
      w == SeenAfter(ip, now)
      rl == RateCheck(ipMap, ip, now)
      resp == IF ~rl.allowed THEN MsgResponse(MAIN, 429, "Too many requests")
              ELSE MsgResponse(MAIN, 405, "Method Not Allowed")
      answers == ~rl.allowed \/ method # "POST"
  IN
  /\ Free(c)
  /\ w.n <= MaxBurst
  /\ ipMap' = rl.map
  /\ seen' = MapSet(seen, ip, w)
  /\ admit' = [ip |-> ip, at |-> now, method |-> method, ord |-> w.n,
               renewed |-> w.renewed, prevDenied |-> w.prevDenied,
               allowed |-> rl.allowed, tableChanged |-> rl.map # ipMap,
               status |-> IF answers THEN resp.status ELSE 0,
               body |-> IF answers THEN resp.body ELSE <<>>]
  /\ IF answers
     THEN /\ calls' = [calls EXCEPT ![c] =
                         [IdleCall EXCEPT !.pc = "done", !.nresp = 1,
                                          !.status = resp.status]]
          /\ last' = [NoCall EXCEPT !.fn = MAIN, !.method = method,
                                    !.denied = ~rl.allowed,
                                    !.responses = <<resp>>]
     ELSE /\ calls' = [calls EXCEPT ![c] =
                         [IdleCall EXCEPT !.pc = "body", !.timer = "armed",
                                          !.armedAt = now]]
          /\ last' = NoCall
  /\ log' = IF log.on /\ rl.allowed
            THEN [log EXCEPT !.at = MapSet(@, ip, Admitted(ip) \o <<now>>)]
            ELSE log
  /\ now' = now

\* part_000, from the call's arrival to await req.json().
HandleAlt(c, method) ==
  /\ Free(c)
  /\ IF method # "POST"
     THEN /\ calls' = [calls EXCEPT ![c] =
                         [IdleCall EXCEPT !.pc = "done", !.fn = ALT, !.nresp = 1,
                                          !.status = 405]]
          /\ last' = [NoCall EXCEPT
                        !.fn = ALT, !.method = method,
                        !.responses = <<MsgResponse(ALT, 405, "Method Not Allowed")>>]
     ELSE /\ calls' = [calls EXCEPT ![c] =
                         [IdleCall EXCEPT !.pc = "body", !.fn = ALT,
                                          !.timer = "armed", !.armedAt = now]]
          /\ last' = NoCall
  /\ UNCHANGED <<now, ipMap, seen, admit, log>>

\* The inner try with its catch around a body that fails, with no 400: the
\* outer catch answers.
ValidateBodyNoInnerCatch(fn, b) ==
  LET reqJson == JSONparse(b)
      body == IF reqJson.ok THEN BodySchema(reqJson.v) ELSE [ok |-> FALSE, v |-> JNull]
  IN [ok |-> body.ok, v |-> body.v,
      resp |-> MsgResponse(fn, 500, "Ai request failed")]

\* The inner try / catch: body = BodySchema.parse(await req.json()), or the 400.
ValidateBody(fn, b) ==
  LET reqJson == JSONparse(b)
      body == IF reqJson.ok THEN BodySchema(reqJson.v) ELSE [ok |-> FALSE, v |-> JNull]
  IN [ok |-> body.ok, v |-> body.v,
      resp |-> MsgResponse(fn, 400, "Invalid request body")]

\* The handler with no return in the catch of the body: it answers 400 and
\* goes on to the gateway call.
ReadBodyNoReturn(c, b) ==
  LET fn == calls[c].fn
      body == ValidateBody(fn, b)
  IN
  /\ calls[c].pc = "body"
  /\ calls' = [calls EXCEPT ![c].pc = "gateway", ![c].reqText = b,
                            ![c].nresp = IF body.ok THEN @ ELSE @ + 1,
                            ![c].messages =
                              IF body.ok THEN Messages(fn, body.v) ELSE <<>>]
  /\ last' = last
  /\ UNCHANGED <<now, ipMap, seen, admit, log>>

\* req.json() settles on the body text b: validation, then either the 400 or
\* the messages and the start of the gateway call.
ReadBody(c, b) ==
  LET fn == calls[c].fn
      body == ValidateBody(fn, b)
  IN
  /\ calls[c].pc = "body"
  /\ IF ~body.ok
     THEN /\ calls' = [calls EXCEPT ![c] =
                         Finished(c, fn, body.resp.status, calls[c].nresp + 1)]
          /\ last' = [NoCall EXCEPT !.fn = fn, !.method = "POST", !.bodyRead = TRUE,
                                    !.reqText = b, !.timer = calls[c].timer,
                                    !.responses = <<body.resp>>]
     ELSE /\ calls' = [calls EXCEPT ![c].pc = "gateway", ![c].reqText = b,
                                    ![c].messages = Messages(fn, body.v)]
          /\ last' = last
  /\ UNCHANGED <<now, ipMap, seen, admit, log>>

\* clearTimeout(timeout): a timer that already ran stays run.
ClearTimeout(timer) == IF timer = "armed" THEN "cleared" ELSE timer

\* The handler without if (!text) throw: an absent text is read as "".
AfterGatewayNoTextCheck(fn, out) ==
  LET r == Reconcile(out.text) IN
  [resp |-> OkResponse(r.aiData), tier |-> r.tier]

\* What the handler does with the gateway's response: clearTimeout, the empty
\* text check, the reconciliation and the 200; the 500 of the outer catch.
AfterGateway(fn, out) ==
  IF ~out.defined \/ out.text = <<>>
  THEN [resp |-> MsgResponse(fn, 500, "Ai request failed"), tier |-> "none"]
  ELSE LET r == Reconcile(out.text) IN
       [resp |-> OkResponse(r.aiData), tier |-> r.tier]

\* The gateway call made without the signal: it returns though abort() ran.
ReturnsNoSignal(c) == calls[c].pc = "gateway"

\* The call made with {signal: controller.signal} returns a response only
\* while controller.abort() has not run.
Returns(c) == calls[c].pc = "gateway" /\ calls[c].timer = "armed"

GatewayReturn(c, out) ==
  LET fn == calls[c].fn
      a == AfterGateway(fn, out)
  IN
  /\ Returns(c)
  /\ calls' = [calls EXCEPT ![c] =
                 [Finished(c, fn, a.resp.status, calls[c].nresp + 1)
                    EXCEPT !.timer = ClearTimeout(calls[c].timer)]]
  /\ last' = [NoCall EXCEPT !.fn = fn, !.method = "POST", !.bodyRead = TRUE,
                            !.reqText = calls[c].reqText,
                            !.messages = calls[c].messages,
                            !.gateway = "returned", !.output = out,
                            !.tier = a.tier, !.timer = ClearTimeout(calls[c].timer),
                            !.responses = <<a.resp>>]
  /\ UNCHANGED <<now, ipMap, seen, admit, log>>

\* openai.responses.create rejects: how is "error" (the service or the network
\* failed) or "aborted" (controller.abort() ran). The outer catch answers.
GatewayRejects(c, how) ==
  LET fn == calls[c].fn
      resp == MsgResponse(fn, 500, "Ai request failed")
  IN
  /\ calls[c].pc = "gateway"
  /\ calls' = [calls EXCEPT ![c] = Finished(c, fn, 500, calls[c].nresp + 1)]
  /\ last' = [NoCall EXCEPT !.fn = fn, !.method = "POST", !.bodyRead = TRUE,
                            !.reqText = calls[c].reqText,
                            !.messages = calls[c].messages,
                            !.gateway = how, !.timer = calls[c].timer,
                            !.responses = <<resp>>]
  /\ UNCHANGED <<now, ipMap, seen, admit, log>>

GatewayError(c) == calls[c].timer = "armed" /\ GatewayRejects(c, "error")

\* controller.abort() on a gateway call made without the signal: nothing
\* happens to the call.
GatewayAbortNoSignal(c) == calls[c].timer = "fired" /\ UNCHANGED vars

GatewayAbort(c) == calls[c].timer = "fired" /\ GatewayRejects(c, "aborted")

\* setTimeout(() => controller.abort(), ...) comes due.
TimerFire(c) ==
  /\ calls[c].timer = "armed"
  /\ now - calls[c].armedAt >= Timeout(calls[c].fn)
  /\ calls' = [calls EXCEPT ![c].timer = "fired"]
  /\ UNCHANGED <<now, ipMap, seen, admit, last, log>>

\* The admissions of key k that still matter at time t: those no older than
\* RATE_LIMIT_WINDOW and those of the window of k's entry.
Recent(k, t) ==
  LET keep(e) == \/ t - e <= RATE_LIMIT_WINDOW
                 \/ k \in DOMAIN ipMap /\ e >= ipMap[k].firstRequest
  IN SelectSeq(log.at[k], keep)

Tick(t) ==
  /\ t > now
  /\ now' = t
  /\ log' = [log EXCEPT !.at = [k \in DOMAIN @ |-> Recent(k, t)]]
  /\ UNCHANGED <<ipMap, calls, seen, admit, last>>

\* One call at a time, of either handler, with every body and every model text.
Init == InitOf(1, FALSE)

Next ==
  \/ \E h \in {NoHeader}, m \in Methods : Handle(1, h, m)
  \/ \E m \in Methods : HandleAlt(1, m)
  \/ \E b \in Bodies : ReadBody(1, b)
  \/ \E out \in OutputTexts : GatewayReturn(1, out)
  \/ GatewayError(1)
  \/ GatewayAbort(1)
  \/ TimerFire(1)
  \/ \E t \in TimerTimes : Tick(t)

Spec == Init /\ [][Next]_vars

\* The rate limiter: the calls of two clients over MaxWindows windows.
NextRate ==
  \/ \E h \in Headers, m \in Methods : Handle(1, h, m)
  \/ ReadBody(1, BodyOk)
  \/ GatewayReturn(1, [defined |-> TRUE, text |-> TextReply])
  \/ \E t \in WindowTimes : Tick(t)

SpecRate == Init /\ [][NextRate]_vars

\* Up to MaxCalls calls of one client in flight at once.
InitConc == InitOf(MaxCalls, TRUE)

NextConc ==
  \/ \E c \in 1..MaxCalls : Handle(c, NoHeader, "POST")
  \/ \E c \in 1..MaxCalls : ReadBody(c, BodyOk)
  \/ \E c \in 1..MaxCalls : GatewayReturn(c, [defined |-> TRUE, text |-> TextReply])
  \/ \E c \in 1..MaxCalls : GatewayAbort(c)
  \/ \E c \in 1..MaxCalls : TimerFire(c)
  \/ \E t \in {TIMEOUT_MS, RATE_LIMIT_WINDOW} : Tick(t)

SpecConc == InitConc /\ [][NextConc]_vars

\* One client key, with the times of its admissions recorded.
InitLog == InitOf(1, TRUE)

NextLog ==
  \/ Handle(1, NoHeader, "POST")
  \/ ReadBody(1, BodyOk)
  \/ GatewayReturn(1, [defined |-> TRUE, text |-> TextReply])
  \/ \E t \in WindowTimes : Tick(t)

SpecLog == InitLog /\ [][NextLog]_vars

\* Both handlers with a model service that may never answer. Time passes, a
\* timer that is due runs, and the rejection of an aborted call is delivered;
\* a call arrives only while its timeout lies within the time points.
Horizon == CHOOSE t \in TimerTimes : \A u \in TimerTimes : u <= t

NextLive ==
  \/ now + TIMEOUT_MS <= Horizon /\ Handle(1, NoHeader, "POST")
  \/ now + ALT_TIMEOUT_MS <= Horizon /\ HandleAlt(1, "POST")
  \/ \E b \in ValidBodies \cup {BodyNoSemester} : ReadBody(1, b)
  \/ \E text \in {TextReply, TextProse} :
       GatewayReturn(1, [defined |-> TRUE, text |-> text])
  \/ GatewayError(1)
  \/ GatewayAbort(1)
  \/ TimerFire(1)
  \/ \E t \in TimerTimes : Tick(t)

Fairness ==
  /\ WF_vars(\E t \in TimerTimes : Tick(t))
  /\ WF_vars(TimerFire(1))
  /\ WF_vars(GatewayAbort(1))

SpecLive == Init /\ [][NextLive]_vars /\ Fairness

\* ---------------------------------------------------------------- claims

Answered == last.responses # <<>>
Status == last.responses[1].status
Body == last.responses[1].body

TooManyRequestsBody == <<"{", Q, "msg", Q, ":", Q, "Too many requests", Q, "}">>

\* C1: of the calls one client makes within RATE_LIMIT_WINDOW of its first call
\* (counted from no entry or from an expired one), the first MAX_REQUESTS pass
\* the rate check, and every later one is answered 429 with the body
\* {"msg":"Too many requests"}.
C1_QuotaPerWindow ==
  admit.ord >= 1 =>
    /\ admit.ord <= MAX_REQUESTS => admit.allowed
    /\ admit.ord > MAX_REQUESTS =>
         /\ ~admit.allowed
         /\ admit.status = 429
         /\ admit.body = TooManyRequestsBody

\* The sixth call of a window has been denied.
C1_Witness ==
  admit.ord = MAX_REQUESTS + 1 /\ ~admit.allowed /\ admit.status = 429

\* C2: the first call of a client at or after RATE_LIMIT_WINDOW from its
\* window's start passes the rate check and leaves the entry at count = 1,
\* firstRequest = now; the first MAX_REQUESTS calls of the new window pass,
\* however many calls were denied in the window before.
C2_WindowReset ==
  admit.renewed =>
    /\ admit.ord = 1 =>
         /\ admit.allowed
         /\ admit.ip \in DOMAIN ipMap
         /\ ipMap[admit.ip] = [count |-> 1, firstRequest |-> admit.at]
    /\ admit.ord <= MAX_REQUESTS => admit.allowed

\* The full quota has been used again in a window that follows one with denied
\* calls.
C2_Witness ==
  /\ admit.renewed /\ admit.prevDenied >= 1
  /\ admit.ord = MAX_REQUESTS /\ admit.allowed
  /\ admit.at - ipMap[admit.ip].firstRequest < RATE_LIMIT_WINDOW

\* C3 (as claimed): a call whose method is not POST is answered 405, never 429,
\* and leaves every entry of ipMap as it was.
C3_NonPostBeforeRateCheck ==
  (admit.method # "" /\ admit.method # "POST") =>
    admit.status = 405 /\ ~admit.tableChanged

\* The fields the specification accepts in a request body.
AcceptedFields == {INPUT, SEMESTER, <<"history">>, <<"stage">>}

\* A body of one of the four kinds of C4.
Rejectable(b) ==
  LET p == JSONparse(b) IN
  /\ p.ok /\ p.v.t = "obj"
  /\ \/ ~Has(p.v, INPUT)
     \/ ~Has(p.v, SEMESTER)
     \/ ~(Keys(p.v) \subseteq AcceptedFields)
     \/ /\ Has(p.v, <<"stage">>)
        /\ Get(p.v, <<"stage">>) \notin {JNum(<<"1">>), JNum(<<"2">>), JNum(<<"3">>)}

\* C4: a POST past the rate check whose body lacks input, lacks semester, has
\* a field outside the accepted set or has stage outside {1,2,3} is answered
\* 400, and no gateway call is started for it.
C4_BadBodyIs400 ==
  /\ \A c \in DOMAIN calls :
       calls[c].pc = "gateway" => ~Rejectable(calls[c].reqText)
  /\ (Answered /\ last.bodyRead /\ Rejectable(last.reqText)) =>
       /\ Status = 400
       /\ last.gateway = "none"
       /\ last.messages = <<>>

\* A body with stage = 4 has been answered 400 with no gateway call.
C4_Witness ==
  /\ Answered /\ last.fn = MAIN /\ last.reqText = BodyStage("4")
  /\ Status = 400 /\ last.gateway = "none"

\* C5 (as claimed): the call with stage = 1 passes validation and sends what
\* the same call without stage sends, so it is not answered 400.
C5_StageOneLikeOmitted ==
  (Answered /\ last.bodyRead /\ last.reqText = BodyStage("1")) =>
    /\ Status # 400
    /\ last.messages = Messages(last.fn, BodySchema(JSONparse(BodyScenario).v).v)

\* An AIResult: reply a non-empty string, suggested_improvement absent or a
\* non-empty string, nothing else.
ValidAIResult(v) ==
  /\ v.t = "obj"
  /\ Keys(v) \subseteq {REPLY, SUGGESTED}
  /\ REPLY \in Keys(v)
  /\ \A k \in Keys(v) : Get(v, k).t = "str" /\ Get(v, k).s # <<>>

\* C6: the body of every 200 response is a valid AIResult, and every non-empty
\* text of the model, parseable or not, is answered 200.
C6_OkBodyIsAIResult ==
  Answered =>
    /\ Status = 200 =>
         /\ JSONparse(Body).ok
         /\ ValidAIResult(JSONparse(Body).v)
    /\ (last.gateway = "returned" /\ last.output.defined /\ last.output.text # <<>>)
         => Status = 200

\* A text whose suggested_improvement is the empty string has been answered 200.
C6_Witness ==
  /\ Answered /\ Status = 200
  /\ last.output.text = TextEmptySuggested
  /\ last.tier = "fallback"

\* C7: the timer runs no sooner than 40 s (15 s in part_000) after it was set;
\* a call whose timer has run is never answered 200, and if its gateway call
\* was started it is answered 500, the call having been aborted.
C7_TimeoutIs500 ==
  /\ \A c \in DOMAIN calls :
       calls[c].timer = "fired" =>
         /\ now - calls[c].armedAt >= (IF calls[c].fn = MAIN THEN 40000 ELSE 15000)
         /\ calls[c].status \in {0, 400, 500}
  /\ (Answered /\ last.timer = "fired") =>
       /\ Status # 200
       /\ last.messages # <<>> => Status = 500 /\ last.gateway = "aborted"

\* A gateway call of index.ts has been aborted by its timer and answered 500.
C7_Witness ==
  /\ Answered /\ last.fn = MAIN /\ last.gateway = "aborted" /\ Status = 500
  /\ \E c \in DOMAIN calls : calls[c].pc = "done" /\ calls[c].timer = "fired"

\* C8: a call that has ended has returned one response, a call in flight none,
\* and the timer's running after the response adds none.
C8_OneResponse ==
  /\ \A c \in DOMAIN calls :
       /\ calls[c].pc = "done" => calls[c].nresp = 1
       /\ calls[c].pc # "done" => calls[c].nresp = 0
  /\ last.fn # "" => Len(last.responses) = 1

\* The timer of a call already answered 400 has run.
C8_Witness ==
  \E c \in DOMAIN calls :
    /\ calls[c].pc = "done" /\ calls[c].status = 400
    /\ calls[c].timer = "fired" /\ calls[c].nresp = 1

\* C9: a call the rate limiter denies is answered 429 with no body read and no
\* gateway call; 429 comes from a denial only, 400 from a body that fails
\* validation only, 500 from a gateway call that fails or returns no text only.
C9_StatusCauses ==
  Answered =>
    /\ last.denied =>
         Status = 429 /\ ~last.bodyRead /\ last.gateway = "none" /\ last.messages = <<>>
    /\ Status = 429 => last.denied
    /\ Status = 400 =>
         /\ last.bodyRead /\ last.gateway = "none"
         /\ ~(JSONparse(last.reqText).ok /\ BodySchema(JSONparse(last.reqText).v).ok)
    /\ Status = 500 =>
         \/ last.gateway \in {"error", "aborted"}
         \/ last.gateway = "returned" /\ (~last.output.defined \/ last.output.text = <<>>)

\* A call has been denied and answered 429.
C9_Witness ==
  Answered /\ last.denied /\ Status = 429 /\ ~last.bodyRead

SameObject(v, w) ==
  /\ v.t = "obj" /\ w.t = "obj"
  /\ Keys(v) = Keys(w)
  /\ \A k \in Keys(v) : Get(v, k) = Get(w, k)

\* C10: when the model's text is the JSON of a valid AIResult, the 200 body is
\* that AIResult, field for field, from the first parse.
C10_RoundTrip ==
  (/\ Answered /\ last.gateway = "returned" /\ last.output.defined
   /\ JSONparse(last.output.text).ok
   /\ ValidAIResult(JSONparse(last.output.text).v)) =>
    /\ Status = 200
    /\ last.tier = "direct"
    /\ JSONparse(Body).ok
    /\ SameObject(JSONparse(Body).v, JSONparse(last.output.text).v)

\* A text with both fields has been answered.
C10_Witness ==
  Answered /\ Status = 200 /\ last.output.text = TextBoth /\ last.tier = "direct"

\* The texts made from s by putting a comma after a closing quote that is
\* followed, with or without white space, by the key "suggested_improvement".
Separated(s) ==
  LET gaps == {i \in 1..Len(s) :
                 /\ s[i] = Q
                 /\ \E j \in i..Len(s) :
                      /\ j + 3 <= Len(s)
                      /\ \A k \in (i + 1)..j : s[k] \in WS
                      /\ s[j + 1] = Q /\ s[j + 2] = "suggested_improvement"
                      /\ s[j + 3] = Q}
  IN {SubSeq(s, 1, i) \o <<",">> \o SubSeq(s, i + 1, Len(s)) : i \in gaps}

\* The AIResults with both fields that s lacks one separator to be.
Intended(s) ==
  {JSONparse(x).v : x \in {y \in Separated(s) :
                             /\ JSONparse(y).ok
                             /\ ValidAIResult(JSONparse(y).v)
                             /\ Has(JSONparse(y).v, SUGGESTED)}}

IsAIResultText(s) == JSONparse(s).ok /\ ValidAIResult(JSONparse(s).v)

\* C11 (as claimed): a text of the model that is the JSON of an AIResult but
\* for the separator missing before "suggested_improvement", with or without
\* white space in its place, is answered 200 with both values of the text,
\* not with the fallback.
C11_RepairMissingSeparator ==
  (/\ Answered /\ last.gateway = "returned" /\ last.output.defined
   /\ ~IsAIResultText(last.output.text)
   /\ Intended(last.output.text) # {}) =>
    /\ Status = 200
    /\ last.tier # "fallback"
    /\ JSONparse(Body).ok
    /\ \E v \in Intended(last.output.text) : SameObject(JSONparse(Body).v, v)

\* The text s parses to an object that has the fields of an AIResult: reply a
\* non-empty string, suggested_improvement absent or a non-empty string.
ParsesAndValidates(s) ==
  LET p == JSONparse(s) IN
  /\ p.ok /\ p.v.t = "obj"
  /\ \A k \in Keys(p.v) \cap {REPLY, SUGGESTED} :
       Get(p.v, k).t = "str" /\ Get(p.v, k).s # <<>>
  /\ REPLY \in Keys(p.v)

FallbackBody ==
  <<"{", Q, "reply", Q, ":", Q, "Sorry, could not generate insights. Try again.",
    Q, "}">>

C14_TimerClearedOnReturn ==
  \A c \in DOMAIN calls :
    (calls[c].pc = "done" /\ calls[c].status \in {200, 400, 500}) =>
      calls[c].timer # "armed"

\* C17: a gateway call that returns with output_text absent or empty is
\* answered 500, never 200.
C17_NoTextIs500 ==
  (/\ Answered /\ last.gateway = "returned"
   /\ (~last.output.defined \/ last.output.text = <<>>)) =>
    Status = 500

\* A response with the empty text and one with no text have been answered 500.
C17_Witness ==
  /\ Answered /\ last.gateway = "returned" /\ Status = 500
  /\ last.output.defined /\ last.output.text = <<>>

HISTORY == <<"history">>
Roles == {<<"system">>, <<"user">>, <<"assistant">>}

\* A ConversationMessage: role one of the three, content a non-empty string.
ValidConversationMessage(e) ==
  /\ e.t = "obj" /\ Keys(e) = {<<"role">>, <<"content">>}
  /\ Get(e, <<"role">>).t = "str" /\ Get(e, <<"role">>).s \in Roles
  /\ Get(e, <<"content">>).t = "str" /\ Get(e, <<"content">>).s # <<>>

\* The object v without its member k.
Without(v, k) == JObj(SelectSeq(v.m, LAMBDA e : e[1] # k))

\* The sequence the claim has sent for the body v: the system message, the
\* history entries in their order, the new user message.
WithHistory(fn, v) ==
  LET h == Get(v, HISTORY).m
      plain == Messages(fn, Without(v, HISTORY))
  IN <<plain[1]>>
     \o [i \in 1..Len(h) |-> [role |-> Get(h[i], <<"role">>).s[1],
                              content |-> Get(h[i], <<"content">>).s]]
     \o <<plain[2]>>

\* C18 (as claimed): a body, valid otherwise, with a history of 0 to 3 valid
\* messages is not answered 400 and the gateway is sent the system message,
\* the history in its order and the new user message; with a history of more
\* than 3 entries it is answered 400.
C18_HistoryInOrder ==
  LET p == JSONparse(last.reqText)
      h == Get(p.v, HISTORY)
  IN
  (/\ Answered /\ last.bodyRead /\ p.ok /\ p.v.t = "obj" /\ Has(p.v, HISTORY)
   /\ BodySchema(Without(p.v, HISTORY)).ok
   /\ h.t = "arr" /\ \A i \in 1..Len(h.m) : ValidConversationMessage(h.m[i])) =>
    IF Len(h.m) <= 3
    THEN Status # 400 /\ last.messages = WithHistory(last.fn, p.v)
    ELSE Status = 400

\* The admissions of key k at or after time t.
AdmittedSince(k, t) == SelectSeq(Admitted(k), LAMBDA e : e >= t)

\* C13: with several calls in flight at once, interleaved at the body read and
\* at the gateway call, no more than MAX_REQUESTS calls of one client are let
\* on within one window.
C13_QuotaUnderInterleaving ==
  \A k \in DOMAIN seen : Len(AdmittedSince(k, seen[k].start)) <= MAX_REQUESTS

\* Two calls are waiting on the gateway at once and the quota of their window
\* is used up.
C13_Witness ==
  /\ \E c, d \in DOMAIN calls :
       c # d /\ calls[c].pc = "gateway" /\ calls[d].pc = "gateway"
  /\ \E k \in DOMAIN seen : Len(AdmittedSince(k, seen[k].start)) = MAX_REQUESTS

\* C15: every entry of ipMap has 1 <= count <= MAX_REQUESTS, and count is the
\* number of the key's calls let on since the entry's firstRequest.
C15_CountIsAdmitted ==
  \A k \in DOMAIN ipMap :
    /\ 1 <= ipMap[k].count /\ ipMap[k].count <= MAX_REQUESTS
    /\ ipMap[k].count = Len(AdmittedSince(k, ipMap[k].firstRequest))

\* An entry in its second window holds the full count, after a denial.
C15_Witness ==
  /\ ~admit.allowed /\ admit.ord > MAX_REQUESTS
  /\ ipMap[admit.ip].firstRequest >= RATE_LIMIT_WINDOW
  /\ ipMap[admit.ip].count = MAX_REQUESTS
  /\ Len(AdmittedSince(admit.ip, ipMap[admit.ip].firstRequest)) = MAX_REQUESTS

\* C16: a rate check that denies the call leaves ipMap as it was: the entry of
\* the denied key and every other entry.
C16_DeniedChangesNothing ==
  [][(admit' # admit /\ ~admit'.allowed) => ipMap' = ipMap]_vars

\* A call has been denied while another key has an entry.
C16_Witness ==
  /\ ~admit.allowed /\ admit.ord > MAX_REQUESTS /\ admit.status = 429
  /\ ~admit.tableChanged
  /\ \E k \in DOMAIN ipMap : k # admit.ip
  /\ ipMap[admit.ip].count = MAX_REQUESTS

C20_AnsweredInTheEnd ==
  \A c \in {1} :
    (calls[c].pc = "gateway") ~> (calls[c].pc = "done" /\ calls[c].nresp = 1)

\* A gateway call of part_000 that was never answered has been aborted by its
\* timer and answered 500.
C20_Witness ==
  /\ Answered /\ last.fn = ALT /\ last.gateway = "aborted" /\ Status = 500
  /\ calls[1].pc = "done" /\ calls[1].timer = "fired"
  /\ now - calls[1].armedAt >= ALT_TIMEOUT_MS
====
